---- MODULE Spec2Model ----
(***************************************************************************)
(* LdapAuthProvider (src/unnamed/part_000): the session lifecycle of the   *)
(* LDAP authentication provider.  Every asynchronous method is a task; a   *)
(* task's pc is the await it is suspended at, and one action is the        *)
(* synchronous code that runs between two awaits.                          *)
(*                                                                         *)
(* SecretStorage is a cell holding what was last stored under              *)
(* "ldap.sessions".  A read takes effect when getSessions resolves, a      *)
(* write when storeSessions is called; the code after `await               *)
(* storeSessions` is a later action.  A fetch is sent by the action that   *)
(* calls it and settled by a later one, which draws the server's answer.   *)
(*                                                                         *)
(* SpecCreate, SpecRemove and SpecRecover run the calls of one method one  *)
(* after another; SpecSweep lets refreshSessions be entered at any time,   *)
(* also while a sweep is running; SpecSweepFair adds a store that cannot   *)
(* be parsed and the fairness of a sweep's awaits; SpecTimer has the       *)
(* interval timer and dispose; Spec interleaves all four methods from an   *)
(* empty store.                                                            *)
(* SpecStubRemove is removeSession of the provider variant in              *)
(* src/extensions/vscode/src/stubs/LdapAuthProvider.ts.                    *)
(***************************************************************************)
EXTENDS Integers, Sequences, FiniteSets, TLC

\* ---------------------------------------------------------------- bounds
MaxTasks == 2
MaxStored == 2
MaxTick == 3

\* ------------------------------------------------------ program constants
ACCESS_TOKEN_TTL_MINUTES == 10
\* The loop bound off by one.
maxAttemptsOff == 3 + 1
maxAttempts == 3

TTL == ACCESS_TOKEN_TTL_MINUTES * 60 * 1000
\* The clock advances in steps of half a TTL, so that a record is seen
\* before, exactly at and after its expiry.
TickMs == TTL \div 2

Tasks == 1..MaxTasks
IdOrder == <<"a", "b", "c">>
Ids == { IdOrder[k] : k \in DOMAIN IdOrder }
\* The names typed at the username prompt.
Usernames == {"a", "b"}
Empty == ""
Abandoned == "<undefined>"
\* Only the empty string is taken for missing input.
FalsyStrict(x) == x = Empty
Falsy(x) == x \in {Empty, Abandoned}

\* secret: the string under "ldap.sessions"; isRefreshing: _isRefreshing;
\* refreshInterval: the interval timer is set; disposable: _disposable is
\* not yet disposed; now: Date.now(); op, pc, local: the method, the await
\* and the locals of each task; timers: the tasks whose abort timer is
\* pending.  Two variables are history: recording says whether calls keep
\* the record of what they did, removedIds holds the ids removeSession has
\* removed from the store and no login has stored since.
VARIABLES secret, isRefreshing, refreshInterval, disposable, recording, removedIds,
          now, op, pc, local, timers

vars ==
    <<secret, isRefreshing, refreshInterval, disposable, recording, removedIds,
      now, op, pc, local, timers>>

\* ------------------------------------------------------------------ data
Session(id, label, accessToken, refreshToken, expiresAt) ==
    [id |-> id, account |-> [id |-> id, label |-> label], scopes |-> <<>>,
     accessToken |-> accessToken, refreshToken |-> refreshToken,
     expiresAt |-> expiresAt, loginNeeded |-> FALSE]

NoSession == Session(Empty, Empty, Empty, Empty, 0)

\* a || b on strings: the empty string and undefined are falsy
OrElse(a, b) == IF Falsy(a) THEN b ELSE a

Response(kind, accessToken, refreshToken, displayName, detail) ==
    [kind |-> kind, accessToken |-> accessToken, refreshToken |-> refreshToken,
     displayName |-> displayName, detail |-> detail]

\* What the server may answer to POST /login.
LoginOutcomes ==
    { Response("ok", "T1", rt, dn, Empty) : rt \in {Abandoned, "R1"}, dn \in {Empty, "Dn"} }
    \cup { Response("notok", Empty, Empty, Empty, d) : d \in {Abandoned, "locked"} }
    \cup { Response("neterr", Empty, Empty, Empty, Empty),
           Response("timeout", Empty, Empty, Empty, Empty) }

\* What the server may answer to POST /refresh.
RefreshOutcomes ==
    { Response("ok", "T2", rt, Empty, Empty) : rt \in {Abandoned, "R2"} }
    \cup { Response("notok", Empty, Empty, Empty, d) : d \in {Abandoned, "revoked"} }
    \cup { Response("neterr", Empty, Empty, Empty, Empty),
           Response("timeout", Empty, Empty, Empty, Empty) }

\* What the server may answer to POST /logout (the body is never read).
LogoutOutcomes ==
    { Response(k, Empty, Empty, Empty, Empty) : k \in {"ok", "notok", "neterr", "timeout"} }

Request(kind, id, token) == [kind |-> kind, id |-> id, token |-> token]

Event(added, removed, changed) ==
    [added |-> added, removed |-> removed, changed |-> changed]

Result(kind, msg, flag) == [kind |-> kind, msg |-> msg, flag |-> flag]

NoResponse == Response("none", Empty, Empty, Empty, Empty)

\* The locals of one call (arg, sessions, out, idx, attempts, username,
\* session, result) and the record of what the call has seen and done:
\* the requests it sent, the lists it stored, the events it fired, the clock
\* at each Date.now(), the outcome of each request, the last response and
\* prompt answer, the store at the call, whether it read the store, whether
\* it found a sweep running, whether it repeats a no-op removal, and for
\* each refresh a sweep was granted: the record's index, the response and
\* the clock when it arrived.
NewLocal ==
    [arg |-> Empty, sessions |-> <<>>, out |-> <<>>, idx |-> 0, attempts |-> 0,
     username |-> Empty, session |-> NoSession,
     result |-> Result("none", Empty, FALSE),
     reqs |-> <<>>, writes |-> <<>>, fired |-> <<>>, examAt |-> <<>>,
     outcomes |-> <<>>, resp |-> NoResponse, answer |-> "none",
     before |-> [kind |-> "none", sessions |-> <<>>],
     loaded |-> FALSE, skipped |-> FALSE, again |-> FALSE, granted |-> <<>>]

\* The locals the remaining steps of a call of method o read.
Live(o, l) ==
    CASE o = "create" -> [NewLocal EXCEPT !.attempts = l.attempts, !.username = l.username]
      [] o = "remove" -> [NewLocal EXCEPT !.arg = l.arg, !.session = l.session]
      [] o = "sweep" ->
            [NewLocal EXCEPT !.sessions = l.sessions, !.idx = l.idx, !.out = l.out]
      [] o = "recover" ->
            [NewLocal EXCEPT !.session = l.session, !.out = l.out,
                             !.outcomes = l.outcomes]
      [] OTHER -> NewLocal

\* The record of what a call has seen and done is kept where calls are
\* checked one method at a time.  Where all methods interleave, a call keeps
\* the locals it will read (at its entry, its argument), and nothing once it
\* has returned.
Kept(l) ==
    IF recording THEN l
    ELSE [t \in Tasks |->
            IF l[t].result.kind # "none" THEN NewLocal
            ELSE IF pc[t] \in {"idle", "done"} THEN [NewLocal EXCEPT !.arg = l[t].arg]
            ELSE Live(op[t], l[t])]

\* ------------------------------------------------------ the secret store
\* SecretStorage holds one string under "ldap.sessions", or nothing.
Absent == [kind |-> "absent", sessions |-> <<>>]

JSONstringify(sessions) == [kind |-> "json", sessions |-> sessions]

\* A stored string that is not JSON.
Corrupt == [kind |-> "corrupt", sessions |-> <<>>]

\* JSON.parse throws a SyntaxError on such a string.
ParseThrows(data) == data.kind = "corrupt"

\* getSessions: no data gives [], otherwise JSON.parse of the data.
getSessions(data) ==
    IF data.kind = "absent" THEN <<>> ELSE data.sessions

\* storeSessions: the whole list replaces what is stored.
storeSessions(sessions) == JSONstringify(sessions)

\* The lists the store may hold when the provider starts: records left by
\* an earlier run, with distinct ids.
InitRecords ==
    { Session(id, id, "T1", rt, e * TickMs) : id \in Ids, rt \in {Empty, "R1"}, e \in {1, 2} }

RECURSIVE ListsUpTo(_)
ListsUpTo(n) ==
    IF n = 0 THEN { <<>> }
    ELSE LET shorter == ListsUpTo(n - 1)
         IN  shorter \cup
             { Append(l, r) : l \in { s \in shorter : Len(s) = n - 1 },
                              r \in InitRecords }

\* The ids of a list are distinct; lists that differ by a renaming of the
\* ids behave alike, and one of them is taken: the ids in the order of IdOrder.
Position(id) == CHOOSE k \in DOMAIN IdOrder : IdOrder[k] = id

UniqueIds(l) ==
    \A i, j \in DOMAIN l : i < j => Position(l[i].id) < Position(l[j].id)

InitStores ==
    { Absent } \cup { JSONstringify(l) : l \in { s \in ListsUpTo(MaxStored) : UniqueIds(s) } }

\* The same lists with one choice of tokens and expiry for every record.
PlainStores ==
    { d \in InitStores : \A i \in DOMAIN d.sessions :
                            /\ d.sessions[i].refreshToken = "R1"
                            /\ d.sessions[i].expiresAt = TickMs }

\* State after the constructor: the interval timer is set, no sweep runs.
InitAs(stores, rec) ==
    /\ secret \in stores
    /\ isRefreshing = FALSE
    /\ refreshInterval = TRUE
    /\ disposable = TRUE
    /\ recording = rec
    /\ removedIds = {}
    /\ now = 0
    /\ op = [t \in Tasks |-> "none"]
    /\ pc = [t \in Tasks |-> "idle"]
    /\ local = [t \in Tasks |-> NewLocal]
    /\ timers = {}

InitWith(stores) == InitAs(stores, TRUE)

Init == InitWith(InitStores)

\* createSession reads nothing of the stored records.
InitCreate == InitWith(PlainStores)

Free(t) == pc[t] \in {"idle", "done"}

\* A call runs as the first task that is not in a call, once a timer its
\* last call left armed has fired.
CanCall(t) ==
    /\ Free(t)
    /\ t \notin timers
    /\ \A u \in Tasks : u < t => ~Free(u)

\* No call is in progress.
Quiet == \A u \in Tasks : Free(u)

\* Date.now() moves on.
Tick ==
    /\ now < MaxTick * TickMs
    /\ now' = now + TickMs
    /\ UNCHANGED <<secret, isRefreshing, refreshInterval, disposable,
                   recording, removedIds, op, pc, local, timers>>

\* ------------------------------------------------------- createSession
CreateCall(t) ==
    /\ CanCall(t)
    /\ op' = [op EXCEPT ![t] = "create"]
    /\ pc' = [pc EXCEPT ![t] = "user"]
    /\ local' = Kept([local EXCEPT ![t] = [NewLocal EXCEPT !.attempts = 0,
                                                           !.before = secret]])
    /\ UNCHANGED <<secret, isRefreshing, refreshInterval, disposable,
                   recording, removedIds, now, timers>>

\* The username prompt resolves.
CreateUsername(t) ==
    /\ op[t] = "create" /\ pc[t] = "user"
    /\ \E u \in Usernames \cup {Empty, Abandoned} :
         IF Falsy(u)
         THEN /\ pc' = [pc EXCEPT ![t] = "done"]
              /\ local' = Kept([local EXCEPT ![t].answer = u,
                                             ![t].result =
                                   Result("throw", "Username required", FALSE)])
         ELSE /\ pc' = [pc EXCEPT ![t] = "pass"]
              /\ local' = Kept([local EXCEPT ![t].answer = u, ![t].username = u])
    /\ UNCHANGED <<secret, isRefreshing, refreshInterval, disposable,
                   recording, removedIds, now, op, timers>>

\* The password prompt resolves; with a password the login request goes out.
CreatePassword(t) ==
    /\ op[t] = "create" /\ pc[t] = "pass"
    /\ \E p \in {"p", Empty, Abandoned} :
         IF Falsy(p)
         THEN /\ pc' = [pc EXCEPT ![t] = "done"]
              /\ local' = Kept([local EXCEPT ![t].answer = p,
                                             ![t].result =
                                   Result("throw", "Password required", FALSE)])
              /\ timers' = timers
         ELSE /\ pc' = [pc EXCEPT ![t] = "login"]
              /\ local' = Kept([local EXCEPT ![t].answer = p,
                                             ![t].reqs =
                                   Append(@, Request("login", local[t].username, Empty))])
              /\ timers' = timers \cup {t}
    /\ UNCHANGED <<secret, isRefreshing, refreshInterval, disposable,
                   recording, removedIds, now, op>>

\* The record built without the TTL added to the clock.
LoginSessionNoTtl(username, data, time) ==
    Session(username, OrElse(data.displayName, username), data.accessToken,
            OrElse(data.refreshToken, Empty), time)

\* The record built from a successful login response.
LoginSession(username, data, time) ==
    Session(username, OrElse(data.displayName, username), data.accessToken,
            OrElse(data.refreshToken, Empty), time + TTL)

\* attempts < maxAttempts - 1: another attempt is allowed.
MayRetry(attempts) == attempts < maxAttempts - 1

\* A failed attempt: the error message is shown and the loop goes on, or
\* the error is thrown.
CreateFailed(t, msg) ==
    IF MayRetry(local[t].attempts)
    THEN /\ pc' = [pc EXCEPT ![t] = "errmsg"]
         /\ local' = Kept([local EXCEPT ![t].outcomes = Append(@, "fail")])
    ELSE /\ pc' = [pc EXCEPT ![t] = "done"]
         /\ local' = Kept([local EXCEPT ![t].outcomes = Append(@, "fail"),
                                        ![t].result = Result("throw", msg, FALSE)])

\* The login request settles: a response, a transport error or the abort.
CreateLoginDone(t) ==
    /\ op[t] = "create" /\ pc[t] = "login"
    /\ timers' = timers \ {t}
    /\ \E r \in LoginOutcomes :
         CASE r.kind = "ok" ->
                LET session == LoginSession(local[t].username, r, now)
                IN  /\ secret' = storeSessions(<<session>>)
                    /\ removedIds' = removedIds \ {session.id}
                    /\ pc' = [pc EXCEPT ![t] = "stored"]
                    /\ local' = Kept([local EXCEPT ![t].session = session,
                                                   ![t].writes = Append(@, <<session>>),
                                                   ![t].examAt = Append(@, now),
                                                   ![t].outcomes = Append(@, "ok")])
           [] r.kind = "notok" ->
                /\ CreateFailed(t, OrElse(r.detail, "Invalid credentials"))
                /\ UNCHANGED <<secret, removedIds>>
           [] OTHER ->
                /\ CreateFailed(t, r.kind)
                /\ UNCHANGED <<secret, removedIds>>
    /\ UNCHANGED <<isRefreshing, refreshInterval, disposable, recording, now, op>>

\* showErrorMessage resolves: attempts++ and the loop tests attempts again.
CreateRetry(t) ==
    /\ op[t] = "create" /\ pc[t] = "errmsg"
    /\ IF local[t].attempts + 1 < maxAttempts
       THEN /\ pc' = [pc EXCEPT ![t] = "user"]
            /\ local' = Kept([local EXCEPT ![t].attempts = @ + 1])
       ELSE /\ pc' = [pc EXCEPT ![t] = "done"]
            /\ local' = Kept([local EXCEPT ![t].attempts = @ + 1,
                                           ![t].result = Result("throw",
                                               "Maximum login attempts exceeded", FALSE)])
    /\ UNCHANGED <<secret, isRefreshing, refreshInterval, disposable,
                   recording, removedIds, now, op, timers>>

\* storeSessions resolves: the session is returned.
CreateReturn(t) ==
    /\ op[t] = "create" /\ pc[t] = "stored"
    /\ pc' = [pc EXCEPT ![t] = "done"]
    /\ local' = Kept([local EXCEPT ![t].result = Result("return", Empty, TRUE)])
    /\ UNCHANGED <<secret, isRefreshing, refreshInterval, disposable,
                   recording, removedIds, now, op, timers>>

\* ------------------------------------------------------- removeSession
\* sessions.findIndex((s) => s.id === sessionId): -1 when there is none.
FindIndex(sessions, id) ==
    IF \E i \in DOMAIN sessions : sessions[i].id = id
    THEN CHOOSE i \in DOMAIN sessions :
             /\ sessions[i].id = id
             /\ \A j \in DOMAIN sessions : sessions[j].id = id => i <= j
    ELSE -1

\* sessions.splice(i, 1)
Splice(sessions, i) ==
    SubSeq(sessions, 1, i - 1) \o SubSeq(sessions, i + 1, Len(sessions))

RemoveCall(t) ==
    /\ CanCall(t)
    /\ \E id \in Ids :
         local' = Kept([local EXCEPT ![t] =
                           [NewLocal EXCEPT !.arg = id, !.before = secret,
                                            !.again = /\ op[t] = "remove"
                                                      /\ local[t].arg = id
                                                      /\ local[t].idx = -1]])
    /\ op' = [op EXCEPT ![t] = "remove"]
    /\ pc' = [pc EXCEPT ![t] = "load"]
    /\ UNCHANGED <<secret, isRefreshing, refreshInterval, disposable,
                   recording, removedIds, now, timers>>

\* removeSession without its early return: splice(-1, 1) drops the last
\* record and the list is stored.
RemoveLoadedNoGuard(t) ==
    /\ op[t] = "remove" /\ pc[t] = "load"
    /\ LET sessions == getSessions(secret)
           sessionIdx == FindIndex(sessions, local[t].arg)
           at == IF sessionIdx = -1 THEN Len(sessions) ELSE sessionIdx
           rest == Splice(sessions, at)
       IN  /\ pc' = [pc EXCEPT ![t] = IF sessionIdx = -1 THEN "done" ELSE "stored"]
           /\ local' = Kept([local EXCEPT ![t].sessions = sessions,
                                          ![t].loaded = TRUE,
                                          ![t].idx = sessionIdx,
                                          ![t].session = IF sessionIdx = -1 THEN NoSession
                                                         ELSE sessions[sessionIdx],
                                          ![t].out = rest,
                                          ![t].writes = Append(@, rest),
                                          ![t].result = Result("return", Empty, FALSE)])
           /\ secret' = storeSessions(rest)
    /\ UNCHANGED <<isRefreshing, refreshInterval, disposable,
                   recording, removedIds, now, op, timers>>

\* getSessions resolves: its exception goes to the caller; return when the
\* id is unknown, else store the list without the record.
RemoveLoaded(t) ==
    /\ op[t] = "remove" /\ pc[t] = "load"
    /\ LET sessions == getSessions(secret)
           sessionIdx == FindIndex(sessions, local[t].arg)
       IN  IF ParseThrows(secret)
           THEN /\ pc' = [pc EXCEPT ![t] = "done"]
                /\ local' = Kept([local EXCEPT ![t].result =
                                      Result("throw", "SyntaxError", FALSE)])
                /\ UNCHANGED <<secret, removedIds>>
           ELSE IF sessionIdx = -1
           THEN /\ pc' = [pc EXCEPT ![t] = "done"]
                /\ local' = Kept([local EXCEPT ![t].sessions = sessions,
                                               ![t].loaded = TRUE,
                                               ![t].idx = sessionIdx,
                                               ![t].result = Result("return", Empty, FALSE)])
                /\ UNCHANGED <<secret, removedIds>>
           ELSE /\ pc' = [pc EXCEPT ![t] = "stored"]
                /\ local' = Kept([local EXCEPT ![t].sessions = sessions,
                                               ![t].loaded = TRUE,
                                               ![t].idx = sessionIdx,
                                               ![t].session = sessions[sessionIdx],
                                               ![t].out = Splice(sessions, sessionIdx),
                                               ![t].writes =
                                                   Append(@, Splice(sessions, sessionIdx))])
                /\ secret' = storeSessions(Splice(sessions, sessionIdx))
                /\ removedIds' = removedIds \cup {local[t].arg}
    /\ UNCHANGED <<isRefreshing, refreshInterval, disposable, recording, now, op, timers>>

\* this._sessionChangeEmitter.fire({added: [], removed: [session], changed: []})
FireRemoved(t, r) ==
    /\ pc' = [pc EXCEPT ![t] = "done"]
    /\ local' = Kept([local EXCEPT ![t].fired =
                          Append(@, Event(<<>>, <<local[t].session>>, <<>>)),
                                   ![t].resp = r,
                                   ![t].result = Result("return", Empty, FALSE)])

\* storeSessions resolves: the logout request goes out when the record has
\* a refresh token, else the event is fired at once.
RemoveStored(t) ==
    /\ op[t] = "remove" /\ pc[t] = "stored"
    /\ IF ~Falsy(local[t].session.refreshToken)
       THEN /\ pc' = [pc EXCEPT ![t] = "logout"]
            /\ local' = Kept([local EXCEPT ![t].reqs = Append(@,
                                 Request("logout", local[t].session.id,
                                         local[t].session.refreshToken))])
            /\ timers' = timers \cup {t}
       ELSE /\ FireRemoved(t, NoResponse)
            /\ timers' = timers
    /\ UNCHANGED <<secret, isRefreshing, refreshInterval, disposable,
                   recording, removedIds, now, op>>

\* The logout request without its try/catch: a failure is thrown to the
\* caller and no event is fired.
RemoveLogoutDoneThrows(t) ==
    /\ op[t] = "remove" /\ pc[t] = "logout"
    /\ \E r \in LogoutOutcomes :
         /\ timers' = IF r.kind = "neterr" THEN timers ELSE timers \ {t}
         /\ IF r.kind \in {"neterr", "timeout"}
            THEN /\ pc' = [pc EXCEPT ![t] = "done"]
                 /\ local' = Kept([local EXCEPT ![t].resp = r,
                                                ![t].result = Result("throw", r.kind, FALSE)])
            ELSE FireRemoved(t, r)
    /\ UNCHANGED <<secret, isRefreshing, refreshInterval, disposable,
                   recording, removedIds, now, op>>

\* The logout request settles.  clearTimeout runs only when fetch resolves;
\* on the abort the timer has fired, on a transport error it stays armed.
\* A failure is caught and logged, and the event is fired all the same.
RemoveLogoutDone(t) ==
    /\ op[t] = "remove" /\ pc[t] = "logout"
    /\ \E r \in LogoutOutcomes :
         /\ timers' = IF r.kind = "neterr" THEN timers ELSE timers \ {t}
         /\ FireRemoved(t, r)
    /\ UNCHANGED <<secret, isRefreshing, refreshInterval, disposable,
                   recording, removedIds, now, op>>

\* A timer left armed fires: controller.abort() on a settled request.
TimerLapse(t) ==
    /\ pc[t] = "done" /\ t \in timers
    /\ timers' = timers \ {t}
    /\ UNCHANGED <<secret, isRefreshing, refreshInterval, disposable,
                   recording, removedIds, now, op, pc, local>>

\* ------------------------------------------------------ _refreshSession
\* The refresh token taken from the response alone.
RefreshResultNoFallback(refreshToken, data, time) ==
    [accessToken |-> data.accessToken,
     refreshToken |-> data.refreshToken,
     expiresAt |-> time + TTL]

\* What _refreshSession returns for an ok response.
RefreshResult(refreshToken, data, time) ==
    [accessToken |-> data.accessToken,
     refreshToken |-> OrElse(data.refreshToken, refreshToken),
     expiresAt |-> time + TTL]

\* {...session, accessToken, refreshToken, expiresAt}
Refreshed(session, refreshed) ==
    [session EXCEPT !.accessToken = refreshed.accessToken,
                    !.refreshToken = refreshed.refreshToken,
                    !.expiresAt = refreshed.expiresAt]

\* ------------------------------------------------------ refreshSessions
\* The comparison turned round.
FreshReversed(session, time) == session.expiresAt < time

\* session.expiresAt > Date.now()
Fresh(session, time) == session.expiresAt > time

\* The for loop up to its next await: records still fresh are pushed.
RECURSIVE Scan(_, _, _, _)
Scan(sessions, i, out, time) ==
    IF i > Len(sessions) THEN [idx |-> i, out |-> out]
    ELSE IF Fresh(sessions[i], time)
         THEN Scan(sessions, i + 1, Append(out, sessions[i]), time)
         ELSE [idx |-> i, out |-> out]

Repeat(x, n) == [k \in 1..n |-> x]

\* The loop from record loc.idx on: the refresh request of the next expired
\* record goes out, or, at the end of the list, the list is stored when it
\* is not empty and otherwise the flag is cleared.
SweepContinue(t, loc) ==
    LET s == Scan(loc.sessions, loc.idx, loc.out, now)
        kept == s.idx - loc.idx
        more == s.idx <= Len(loc.sessions)
        seen == [loc EXCEPT !.idx = s.idx, !.out = s.out,
                            !.outcomes = @ \o Repeat("fresh", kept),
                            !.examAt = @ \o Repeat(now, IF more THEN kept + 1 ELSE kept)]
    IN  IF more
        THEN /\ pc' = [pc EXCEPT ![t] = "refresh"]
             /\ local' = Kept([local EXCEPT ![t] = [seen EXCEPT !.reqs = Append(@,
                                   Request("refresh", loc.sessions[s.idx].id,
                                           loc.sessions[s.idx].refreshToken))]])
             /\ timers' = timers \cup {t}
             /\ UNCHANGED <<secret, isRefreshing>>
        ELSE IF Len(s.out) > 0
        THEN /\ pc' = [pc EXCEPT ![t] = "stored"]
             /\ local' = Kept([local EXCEPT ![t] = [seen EXCEPT !.writes = Append(@, s.out)]])
             /\ secret' = storeSessions(s.out)
             /\ timers' = timers \ {t}
             /\ UNCHANGED isRefreshing
        ELSE /\ pc' = [pc EXCEPT ![t] = "done"]
             /\ local' = Kept([local EXCEPT ![t] =
                                   [seen EXCEPT !.result = Result("return", Empty, FALSE)]])
             /\ isRefreshing' = FALSE
             /\ timers' = timers \ {t}
             /\ UNCHANGED secret

\* refreshSessions without the test of the flag.
SweepCallUnguarded(t) ==
    /\ CanCall(t)
    /\ op' = [op EXCEPT ![t] = "sweep"]
    /\ pc' = [pc EXCEPT ![t] = "load"]
    /\ local' = Kept([local EXCEPT ![t] = NewLocal])
    /\ isRefreshing' = TRUE
    /\ UNCHANGED <<secret, refreshInterval, disposable, recording, removedIds, now, timers>>

\* refreshSessions is entered: return when a sweep is running, else set the
\* flag and ask for the stored list.
SweepCall(t) ==
    /\ CanCall(t)
    /\ op' = [op EXCEPT ![t] = "sweep"]
    /\ IF isRefreshing
       THEN /\ pc' = [pc EXCEPT ![t] = "done"]
            /\ local' = Kept([local EXCEPT ![t] =
                                  [NewLocal EXCEPT !.skipped = TRUE,
                                                   !.result = Result("return", Empty, FALSE)]])
            /\ isRefreshing' = isRefreshing
       ELSE /\ pc' = [pc EXCEPT ![t] = "load"]
            /\ local' = Kept([local EXCEPT ![t] = NewLocal])
            /\ isRefreshing' = TRUE
    /\ UNCHANGED <<secret, refreshInterval, disposable, recording, removedIds, now, timers>>

\* An exception that leaves the try block without the finally.
SweepRaiseNoFinally(t, msg) ==
    /\ pc' = [pc EXCEPT ![t] = "done"]
    /\ local' = Kept([local EXCEPT ![t].result = Result("throw", msg, FALSE)])
    /\ UNCHANGED <<secret, isRefreshing, timers>>

\* An exception leaves the try block: there is no catch, the finally clears
\* the flag and the exception goes to the caller.
SweepRaise(t, msg) ==
    /\ pc' = [pc EXCEPT ![t] = "done"]
    /\ local' = Kept([local EXCEPT ![t].result = Result("throw", msg, FALSE)])
    /\ isRefreshing' = FALSE
    /\ UNCHANGED <<secret, timers>>

\* getSessions resolves and the loop starts, or getSessions throws.
SweepLoaded(t) ==
    /\ op[t] = "sweep" /\ pc[t] = "load"
    /\ IF ParseThrows(secret)
       THEN SweepRaise(t, "SyntaxError")
       ELSE SweepContinue(t, [local[t] EXCEPT !.sessions = getSessions(secret),
                                              !.loaded = TRUE, !.idx = 1, !.out = <<>>])
    /\ UNCHANGED <<refreshInterval, disposable, recording, removedIds, now, op>>

\* The refreshed record is pushed and, the continue missing, the record as
\* it was after it.
PushedBoth(out, session, r, time) ==
    IF r.kind = "ok"
    THEN Append(Append(out, Refreshed(session, RefreshResult(session.refreshToken, r, time))),
                session)
    ELSE Append(out, session)

\* A record whose refresh fails is left out of refreshedSessions.
PushedDropFailed(out, session, r, time) ==
    IF r.kind = "ok"
    THEN Append(out, Refreshed(session, RefreshResult(session.refreshToken, r, time)))
    ELSE out

\* refreshedSessions after the try/catch around _refreshSession: the
\* refreshed record is pushed, or on a failure the record as it was.
Pushed(out, session, r, time) ==
    IF r.kind = "ok"
    THEN Append(out, Refreshed(session, RefreshResult(session.refreshToken, r, time)))
    ELSE Append(out, session)

\* The refresh request of record idx settles, and the loop goes on.
SweepRefreshDone(t) ==
    /\ op[t] = "sweep" /\ pc[t] = "refresh"
    /\ \E r \in RefreshOutcomes :
         LET session == local[t].sessions[local[t].idx]
         IN  SweepContinue(t, [local[t] EXCEPT
                                  !.out = Pushed(@, session, r, now),
                                  !.idx = @ + 1,
                                  !.outcomes = Append(@, IF r.kind = "ok"
                                                         THEN "ok" ELSE "fail"),
                                  !.granted = IF r.kind = "ok"
                                              THEN Append(@, [idx |-> local[t].idx,
                                                              resp |-> r, at |-> now])
                                              ELSE @])
    /\ UNCHANGED <<refreshInterval, disposable, recording, removedIds, now, op>>

\* storeSessions resolves: finally, the flag is cleared.
SweepFinish(t) ==
    /\ op[t] = "sweep" /\ pc[t] = "stored"
    /\ pc' = [pc EXCEPT ![t] = "done"]
    /\ local' = Kept([local EXCEPT ![t].result = Result("return", Empty, FALSE)])
    /\ isRefreshing' = FALSE
    /\ UNCHANGED <<secret, refreshInterval, disposable, recording, removedIds, now, op, timers>>

\* ---------------------------------------------------- handleTokenExpired
RecoverCall(t) ==
    /\ CanCall(t)
    /\ op' = [op EXCEPT ![t] = "recover"]
    /\ pc' = [pc EXCEPT ![t] = "load"]
    /\ local' = Kept([local EXCEPT ![t] = [NewLocal EXCEPT !.before = secret]])
    /\ UNCHANGED <<secret, isRefreshing, refreshInterval, disposable,
                   recording, removedIds, now, timers>>

\* getSessions resolves: false for an empty list or when it throws (the
\* outer catch), else the first record is sent to refresh.
RecoverLoaded(t) ==
    /\ op[t] = "recover" /\ pc[t] = "load"
    /\ LET sessions == getSessions(secret)
       IN  IF ParseThrows(secret)
           THEN /\ pc' = [pc EXCEPT ![t] = "done"]
                /\ local' = Kept([local EXCEPT ![t].result = Result("return", Empty, FALSE)])
                /\ timers' = timers
           ELSE IF Len(sessions) = 0
           THEN /\ pc' = [pc EXCEPT ![t] = "done"]
                /\ local' = Kept([local EXCEPT ![t].sessions = sessions,
                                               ![t].loaded = TRUE,
                                               ![t].result = Result("return", Empty, FALSE)])
                /\ timers' = timers
           ELSE /\ pc' = [pc EXCEPT ![t] = "refresh"]
                /\ local' = Kept([local EXCEPT ![t].sessions = sessions,
                                               ![t].loaded = TRUE,
                                               ![t].idx = 1,
                                               ![t].session = sessions[1],
                                               ![t].reqs = Append(@,
                                                   Request("refresh", sessions[1].id,
                                                           sessions[1].refreshToken))])
                /\ timers' = timers \cup {t}
    /\ UNCHANGED <<secret, isRefreshing, refreshInterval, disposable,
                   recording, removedIds, now, op>>

\* On a failure the record is kept, as the sweep keeps it.
RecoverListKeep(session, r, time) ==
    IF r.kind = "ok"
    THEN << Refreshed(session, RefreshResult(session.refreshToken, r, time)) >>
    ELSE << session >>

\* The list handleTokenExpired stores once the refresh has settled.
RecoverList(session, r, time) ==
    IF r.kind = "ok"
    THEN << Refreshed(session, RefreshResult(session.refreshToken, r, time)) >>
    ELSE <<>>

\* The refresh request settles: the refreshed record alone is stored, or
\* the empty list.
RecoverRefreshDone(t) ==
    /\ op[t] = "recover" /\ pc[t] = "refresh"
    /\ \E r \in RefreshOutcomes :
         LET list == RecoverList(local[t].session, r, now)
         IN  /\ secret' = storeSessions(list)
             /\ local' = Kept([local EXCEPT ![t].out = list,
                                            ![t].writes = Append(@, list),
                                            ![t].resp = r,
                                            ![t].examAt = Append(@, now),
                                            ![t].outcomes = Append(@, IF r.kind = "ok"
                                                                   THEN "ok" ELSE "fail")])
    /\ pc' = [pc EXCEPT ![t] = "stored"]
    /\ timers' = timers \ {t}
    /\ UNCHANGED <<isRefreshing, refreshInterval, disposable, recording, removedIds, now, op>>

\* The refreshed record reported as added.
RecoverEventAdded(session, out, outcome) ==
    IF outcome = "ok" THEN Event(out, <<>>, <<>>) ELSE Event(<<>>, <<session>>, <<>>)

\* The event handleTokenExpired fires, by the outcome of the refresh.
RecoverEvent(session, out, outcome) ==
    IF outcome = "ok" THEN Event(<<>>, <<>>, out) ELSE Event(<<>>, <<session>>, <<>>)

\* storeSessions resolves: the event is fired and the verdict returned.
RecoverFire(t) ==
    /\ op[t] = "recover" /\ pc[t] = "stored"
    /\ pc' = [pc EXCEPT ![t] = "done"]
    /\ local' = Kept([local EXCEPT
                         ![t].fired = Append(@, RecoverEvent(local[t].session, local[t].out,
                                                              local[t].outcomes[1])),
                         ![t].result = Result("return", Empty, local[t].outcomes[1] = "ok")])
    /\ UNCHANGED <<secret, isRefreshing, refreshInterval, disposable,
                   recording, removedIds, now, op, timers>>

\* -------------------------------------------------------------- dispose
\* setInterval(() => { void this.refreshSessions(); }, ...): the interval
\* fires for as long as it is not cleared.
TimerSweep(t) == refreshInterval /\ SweepCall(t)

\* dispose without clearInterval.
DisposeKeepsTimer ==
    /\ disposable' = FALSE
    /\ UNCHANGED <<secret, isRefreshing, refreshInterval, recording, removedIds,
                   now, op, pc, local, timers>>

\* clearInterval(this._refreshInterval); this._disposable.dispose()
Dispose ==
    /\ refreshInterval' = FALSE
    /\ disposable' = FALSE
    /\ UNCHANGED <<secret, isRefreshing, recording, removedIds, now, op, pc, local, timers>>

\* ------------------------------- stubs/LdapAuthProvider.ts: removeSession
\* The provider variant of src/extensions/vscode/src/stubs keeps records
\* with expiresInMs in place of expiresAt; its removeSession has no early
\* return and sends no logout request.
StubSession(id, label, accessToken, refreshToken, expiresInMs) ==
    [id |-> id, account |-> [id |-> id, label |-> label], scopes |-> <<>>,
     accessToken |-> accessToken, refreshToken |-> refreshToken,
     expiresInMs |-> expiresInMs, loginNeeded |-> FALSE]

\* The records the variant's createSession writes, for a token life of ten
\* minutes.
StubRecords ==
    { StubSession(id, id, "T1", rt, TTL) : id \in Ids, rt \in {Empty, "R1"} }

RECURSIVE StubListsUpTo(_)
StubListsUpTo(n) ==
    IF n = 0 THEN { <<>> }
    ELSE LET shorter == StubListsUpTo(n - 1)
         IN  shorter \cup
             { Append(l, r) : l \in { x \in shorter : Len(x) = n - 1 },
                              r \in StubRecords }

StubStores ==
    { Absent } \cup
    { JSONstringify(l) : l \in { x \in StubListsUpTo(MaxStored) : UniqueIds(x) } }

InitStub == InitAs(StubStores, TRUE)

\* sessions.splice(sessionIdx, 1): a negative start counts from the end of
\* the array, so -1 is the last element; nothing goes from an empty array.
StubSplice(sessions, sessionIdx) ==
    IF sessionIdx = -1
    THEN IF Len(sessions) = 0 THEN sessions
         ELSE SubSeq(sessions, 1, Len(sessions) - 1)
    ELSE Splice(sessions, sessionIdx)

StubRemoveCall(t) ==
    /\ CanCall(t)
    /\ \E id \in Ids :
         local' = Kept([local EXCEPT ![t] =
                           [NewLocal EXCEPT !.arg = id, !.before = secret]])
    /\ op' = [op EXCEPT ![t] = "stubRemove"]
    /\ pc' = [pc EXCEPT ![t] = "load"]
    /\ UNCHANGED <<secret, isRefreshing, refreshInterval, disposable,
                   recording, removedIds, now, timers>>

\* getSessions resolves: its exception goes to the caller; else
\* session = sessions[sessionIdx] (undefined at -1), the splice, and the list
\* is stored whatever the index.
StubRemoveLoaded(t) ==
    /\ op[t] = "stubRemove" /\ pc[t] = "load"
    /\ LET sessions == getSessions(secret)
           sessionIdx == FindIndex(sessions, local[t].arg)
       IN  IF ParseThrows(secret)
           THEN /\ pc' = [pc EXCEPT ![t] = "done"]
                /\ local' = Kept([local EXCEPT ![t].result =
                                      Result("throw", "SyntaxError", FALSE)])
                /\ UNCHANGED <<secret, removedIds>>
           ELSE /\ pc' = [pc EXCEPT ![t] = "stored"]
                /\ local' = Kept([local EXCEPT
                                      ![t].sessions = sessions,
                                      ![t].loaded = TRUE,
                                      ![t].idx = sessionIdx,
                                      ![t].session = IF sessionIdx = -1 THEN NoSession
                                                     ELSE sessions[sessionIdx],
                                      ![t].out = StubSplice(sessions, sessionIdx),
                                      ![t].writes =
                                          Append(@, StubSplice(sessions, sessionIdx))])
                /\ secret' = storeSessions(StubSplice(sessions, sessionIdx))
                /\ removedIds' = IF sessionIdx = -1 THEN removedIds
                                 ELSE removedIds \cup {local[t].arg}
    /\ UNCHANGED <<isRefreshing, refreshInterval, disposable, recording, now, op, timers>>

\* storeSessions resolves: if (session) the event is fired.
StubRemoveStored(t) ==
    /\ op[t] = "stubRemove" /\ pc[t] = "stored"
    /\ pc' = [pc EXCEPT ![t] = "done"]
    /\ local' = Kept([local EXCEPT
                          ![t].fired = IF local[t].idx = -1 THEN @
                                       ELSE Append(@, Event(<<>>, <<local[t].session>>,
                                                            <<>>)),
                          ![t].result = Result("return", Empty, FALSE)])
    /\ UNCHANGED <<secret, isRefreshing, refreshInterval, disposable,
                   recording, removedIds, now, op, timers>>

\* -------------------------------------------------------- specifications
\* createSession, one call at a time.
NextCreate ==
    \/ Tick
    \/ \E t \in Tasks : Quiet /\ CreateCall(t)
    \/ \E t \in Tasks : CreateUsername(t)
    \/ \E t \in Tasks : CreatePassword(t)
    \/ \E t \in Tasks : CreateLoginDone(t)
    \/ \E t \in Tasks : CreateRetry(t)
    \/ \E t \in Tasks : CreateReturn(t)

SpecCreate == InitCreate /\ [][NextCreate]_vars

\* removeSession, one call at a time.
NextRemove ==
    \/ Tick
    \/ \E t \in Tasks : Quiet /\ RemoveCall(t)
    \/ \E t \in Tasks : RemoveLoaded(t)
    \/ \E t \in Tasks : RemoveStored(t)
    \/ \E t \in Tasks : RemoveLogoutDone(t)
    \/ \E t \in Tasks : TimerLapse(t)

SpecRemove == Init /\ [][NextRemove]_vars

\* handleTokenExpired, one call at a time.
NextRecover ==
    \/ Tick
    \/ \E t \in Tasks : Quiet /\ RecoverCall(t)
    \/ \E t \in Tasks : RecoverLoaded(t)
    \/ \E t \in Tasks : RecoverRefreshDone(t)
    \/ \E t \in Tasks : RecoverFire(t)

SpecRecover == Init /\ [][NextRecover]_vars

\* refreshSessions, entered at any time: by the interval timer or directly.
NextSweep ==
    \/ Tick
    \/ \E t \in Tasks : SweepCall(t)
    \/ \E t \in Tasks : SweepLoaded(t)
    \/ \E t \in Tasks : SweepRefreshDone(t)
    \/ \E t \in Tasks : SweepFinish(t)

SpecSweep == Init /\ [][NextSweep]_vars

\* All four methods, entered at any time and interleaved at every await,
\* from an empty store.  No record of a call is kept here.  The optional
\* fields of the server's answers play no part in which lists the calls load
\* and store, and one choice of them is taken: a login is answered with a
\* refresh token and no display name, a refresh with no new refresh token;
\* removeSession is called with the ids that can be logged in.
InitEmpty == InitAs({Absent}, FALSE)

TerseRecord(s) == s.account.label = s.id /\ s.refreshToken = "R1"

Terse ==
    /\ \A i \in DOMAIN secret'.sessions : TerseRecord(secret'.sessions[i])
    /\ \A t \in Tasks : \A i \in DOMAIN local'[t].out : TerseRecord(local'[t].out[i])

Next ==
    \/ Tick
    \/ \E t \in Tasks : CreateCall(t)
    \/ \E t \in Tasks : CreateUsername(t)
    \/ \E t \in Tasks : CreatePassword(t)
    \/ \E t \in Tasks : CreateLoginDone(t) /\ Terse
    \/ \E t \in Tasks : CreateRetry(t)
    \/ \E t \in Tasks : CreateReturn(t)
    \/ \E t \in Tasks : RemoveCall(t) /\ local'[t].arg \in Usernames
    \/ \E t \in Tasks : RemoveLoaded(t)
    \/ \E t \in Tasks : RemoveStored(t)
    \/ \E t \in Tasks : RemoveLogoutDone(t)
    \/ \E t \in Tasks : TimerLapse(t)
    \/ \E t \in Tasks : SweepCall(t)
    \/ \E t \in Tasks : SweepLoaded(t)
    \/ \E t \in Tasks : SweepRefreshDone(t) /\ Terse
    \/ \E t \in Tasks : SweepFinish(t)
    \/ \E t \in Tasks : RecoverCall(t)
    \/ \E t \in Tasks : RecoverLoaded(t)
    \/ \E t \in Tasks : RecoverRefreshDone(t) /\ Terse
    \/ \E t \in Tasks : RecoverFire(t)

Spec == InitEmpty /\ [][Next]_vars

\* refreshSessions as in SpecSweep, over a store that may also hold a string
\* that is not JSON.  Every await of a sweep is answered in the end: the
\* store resolves, and a fetch resolves, fails or is aborted by its timer.
InitCorrupt == InitAs(PlainStores \cup {Corrupt}, TRUE)

SweepSettles ==
    \A t \in Tasks : /\ WF_vars(SweepLoaded(t))
                     /\ WF_vars(SweepRefreshDone(t))
                     /\ WF_vars(SweepFinish(t))

SpecSweepFair == InitCorrupt /\ [][NextSweep]_vars /\ SweepSettles

\* The sweeps the interval timer starts, and dispose at any time.
NextTimer ==
    \/ Tick
    \/ \E t \in Tasks : TimerSweep(t)
    \/ \E t \in Tasks : SweepLoaded(t)
    \/ \E t \in Tasks : SweepRefreshDone(t)
    \/ \E t \in Tasks : SweepFinish(t)
    \/ Dispose

SpecTimer == InitCreate /\ [][NextTimer]_vars

\* removeSession of the stubs variant, one call at a time.
NextStubRemove ==
    \/ \E t \in Tasks : Quiet /\ StubRemoveCall(t)
    \/ \E t \in Tasks : StubRemoveLoaded(t)
    \/ \E t \in Tasks : StubRemoveStored(t)

SpecStubRemove == InitStub /\ [][NextStubRemove]_vars

\* ---------------------------------------------------------------- claims
Stored == getSessions(secret)

HasId(sessions, id) == \E i \in DOMAIN sessions : sessions[i].id = id

\* The refresh requests sent for record id, over all calls.
RefreshCount(id) ==
    Cardinality({ p \in UNION { {u} \X DOMAIN local[u].reqs : u \in Tasks } :
                    /\ local[p[1]].reqs[p[2]].kind = "refresh"
                    /\ local[p[1]].reqs[p[2]].id = id })

\* C1: a refreshSessions entered while another sweep holds the flag returns
\* at once: it has not read the store, sent no request and stored nothing;
\* and over all the invocations every record the running sweep found expired
\* has been sent to /refresh exactly once, every other record never.
C1_OverlappingSweepDoesNothing ==
    \A t \in Tasks : op[t] = "sweep" =>
        /\ local[t].skipped =>
              /\ pc[t] = "done"
              /\ ~local[t].loaded
              /\ local[t].reqs = <<>>
              /\ local[t].writes = <<>>
              /\ local[t].result.kind = "return"
        /\ local[t].loaded =>
              \A i \in DOMAIN local[t].sessions :
                  RefreshCount(local[t].sessions[i].id) =
                      IF /\ i <= Len(local[t].examAt)
                         /\ local[t].sessions[i].expiresAt <= local[t].examAt[i]
                      THEN 1 ELSE 0

\* A second invocation was turned away while the first, which sent two
\* refresh requests, has not finished.
C1_Witness ==
    \E t, u \in Tasks :
        /\ op[t] = "sweep" /\ pc[t] = "stored" /\ Len(local[t].reqs) = 2
        /\ op[u] = "sweep" /\ local[u].skipped

\* C2: one createSession sends at most 3 login requests; when the first two
\* fail and the third succeeds it returns the session of the third after
\* exactly 3 requests; when three fail it ends in failure after exactly 3.
C2_AtMostThreeLogins ==
    \A t \in Tasks : op[t] = "create" =>
        /\ Len(local[t].reqs) <= 3
        /\ Len(local[t].outcomes) <= Len(local[t].reqs)
        /\ local[t].outcomes = <<"fail", "fail", "ok">> =>
              /\ Len(local[t].reqs) = 3
              /\ pc[t] \in {"stored", "done"}
              /\ local[t].session.id = local[t].reqs[3].id
              /\ local[t].writes = << <<local[t].session>> >>
              /\ pc[t] = "done" => local[t].result.kind = "return"
        /\ local[t].outcomes = <<"fail", "fail", "fail">> =>
              /\ Len(local[t].reqs) = 3
              /\ pc[t] = "done"
              /\ local[t].result.kind = "throw"

\* Two failed logins, then a successful one, and the session was returned.
C2_Witness ==
    \E t \in Tasks :
        /\ op[t] = "create" /\ pc[t] = "done"
        /\ local[t].outcomes = <<"fail", "fail", "ok">>
        /\ local[t].result.kind = "return"

\* C3: an empty or abandoned answer to the username or password prompt, on
\* the first attempt or a retry, ends createSession in failure at once: every
\* request it sent belongs to an earlier, failed attempt (none for this one),
\* the attempt counter counts only those, nothing was stored and the store
\* is as it was at the call.
C3_MissingInputAborts ==
    \A t \in Tasks : (op[t] = "create" /\ local[t].answer \in {Empty, Abandoned}) =>
        /\ pc[t] = "done"
        /\ local[t].result.kind = "throw"
        /\ local[t].result.msg \in {"Username required", "Password required"}
        /\ Len(local[t].reqs) = local[t].attempts
        /\ Len(local[t].outcomes) = local[t].attempts
        /\ \A i \in DOMAIN local[t].outcomes : local[t].outcomes[i] = "fail"
        /\ local[t].writes = <<>>
        /\ secret = local[t].before

\* The password prompt was abandoned on the third attempt.
C3_Witness ==
    \E t \in Tasks :
        /\ op[t] = "create" /\ pc[t] = "done"
        /\ local[t].answer = Abandoned
        /\ local[t].result.msg = "Password required"
        /\ local[t].attempts = 2

\* C4: once createSession has stored its session (and when it has returned
\* it), the store holds exactly one record, the one this call wrote: its id
\* is the username of the successful attempt, its expiresAt the clock at the
\* moment it was built plus 10 minutes, its loginNeeded false.
C4_LoginStoresSoleRecord ==
    \A t \in Tasks :
        (op[t] = "create" /\ (pc[t] = "stored" \/ local[t].result.kind = "return")) =>
            /\ Len(local[t].writes) = 1
            /\ Len(local[t].writes[1]) = 1
            /\ secret = [kind |-> "json", sessions |-> local[t].writes[1]]
            /\ Len(local[t].examAt) = 1
            /\ LET rec == local[t].writes[1][1]
               IN  /\ rec.id = local[t].reqs[Len(local[t].reqs)].id
                   /\ rec.id = local[t].username
                   /\ rec.expiresAt = local[t].examAt[1] + 10 * 60 * 1000
                   /\ rec.loginNeeded = FALSE

\* A login that returned, with two records in the store at the call.
C4_Witness ==
    \E t \in Tasks :
        /\ op[t] = "create" /\ pc[t] = "done"
        /\ local[t].result.kind = "return"
        /\ Len(local[t].before.sessions) = 2

\* C5: in a sweep, a record whose expiresAt is greater than the clock when
\* it is examined is not sent to /refresh and goes unchanged into the list
\* the sweep stores; every refresh request of the sweep is for a record
\* whose expiresAt was at or before the clock when it was examined.
C5_FreshNeverRefreshed ==
    \A t \in Tasks : (op[t] = "sweep" /\ local[t].loaded) =>
        /\ \A i \in DOMAIN local[t].examAt :
              local[t].sessions[i].expiresAt > local[t].examAt[i] =>
                  /\ \A k \in DOMAIN local[t].reqs :
                        local[t].reqs[k].id # local[t].sessions[i].id
                  /\ local[t].out[i] = local[t].sessions[i]
                  /\ pc[t] \in {"stored", "done"} =>
                        /\ Len(local[t].writes) = 1
                        /\ local[t].writes[1][i] = local[t].sessions[i]
                        /\ Stored[i] = local[t].sessions[i]
        /\ \A k \in DOMAIN local[t].reqs :
              \E i \in DOMAIN local[t].examAt :
                  /\ local[t].sessions[i].id = local[t].reqs[k].id
                  /\ local[t].sessions[i].refreshToken = local[t].reqs[k].token
                  /\ local[t].sessions[i].expiresAt <= local[t].examAt[i]

\* A sweep stored a list of two records, the first still fresh when it was
\* examined, the second expired at that very instant and sent to /refresh.
C5_Witness ==
    \E t \in Tasks :
        /\ op[t] = "sweep" /\ pc[t] = "stored"
        /\ Len(local[t].sessions) = 2
        /\ local[t].sessions[1].expiresAt > local[t].examAt[1]
        /\ local[t].sessions[2].expiresAt = local[t].examAt[2]
        /\ Len(local[t].reqs) = 1

\* C6: after a sweep during which nothing else ran, every record whose
\* refresh failed is in the store at its position with every field as it was
\* loaded.
C6_FailedRefreshKeepsRecord ==
    \A t \in Tasks :
        (op[t] = "sweep" /\ local[t].loaded /\ pc[t] \in {"stored", "done"}) =>
            \A i \in DOMAIN local[t].sessions :
                local[t].outcomes[i] = "fail" =>
                    /\ i <= Len(Stored)
                    /\ Stored[i] = local[t].sessions[i]

\* A finished sweep of two records: the first refresh failed, the second
\* succeeded.
C6_Witness ==
    \E t \in Tasks :
        /\ op[t] = "sweep" /\ pc[t] = "done"
        /\ local[t].outcomes = <<"fail", "ok">>

\* C7: when handleTokenExpired loaded a list that is not empty and the
\* refresh of its first record failed, the stored list is empty once the call
\* has stored, and at the end exactly one event was fired, with the first
\* record as loaded as its only removed session and nothing added or
\* changed, and false was returned.
C7_RecoverFailureClearsStore ==
    \A t \in Tasks : (op[t] = "recover" /\ local[t].outcomes = <<"fail">>) =>
        /\ Len(local[t].sessions) > 0
        /\ pc[t] \in {"stored", "done"}
        /\ secret = [kind |-> "json", sessions |-> <<>>]
        /\ pc[t] = "done" =>
              /\ local[t].fired =
                    << [added |-> <<>>, removed |-> <<local[t].sessions[1]>>,
                        changed |-> <<>>] >>
              /\ local[t].result = [kind |-> "return", msg |-> Empty, flag |-> FALSE]

\* A recovery over two stored records ended after its refresh timed out.
C7_Witness ==
    \E t \in Tasks :
        /\ op[t] = "recover" /\ pc[t] = "done"
        /\ Len(local[t].sessions) = 2
        /\ local[t].resp.kind = "timeout"

\* The record a successful refresh makes of old.
C8_Expected(old, resp, at) ==
    [old EXCEPT !.accessToken = resp.accessToken,
                !.refreshToken = IF resp.refreshToken \in {Empty, Abandoned}
                                 THEN old.refreshToken ELSE resp.refreshToken,
                !.expiresAt = at + 10 * 60 * 1000]

\* C8: when handleTokenExpired loaded a list that is not empty and the
\* refresh of its first record succeeded, the store holds the refreshed
\* record and nothing else, and at the end exactly one event was fired, a
\* changed event with that record, and true was returned; when the list is
\* empty false is returned with no request, no store write and no event.
C8_RecoverSuccessStoresRefreshed ==
    \A t \in Tasks : op[t] = "recover" =>
        /\ (local[t].loaded /\ Len(local[t].sessions) = 0) =>
              /\ pc[t] = "done"
              /\ local[t].result = [kind |-> "return", msg |-> Empty, flag |-> FALSE]
              /\ local[t].reqs = <<>>
              /\ local[t].writes = <<>>
              /\ local[t].fired = <<>>
              /\ secret = local[t].before
        /\ local[t].outcomes = <<"ok">> =>
              LET new == C8_Expected(local[t].sessions[1], local[t].resp,
                                     local[t].examAt[1])
              IN  /\ pc[t] \in {"stored", "done"}
                  /\ secret = [kind |-> "json", sessions |-> <<new>>]
                  /\ Len(local[t].reqs) = 1
                  /\ pc[t] = "stored" => local[t].fired = <<>>
                  /\ pc[t] = "done" =>
                        /\ local[t].fired =
                              << [added |-> <<>>, removed |-> <<>>,
                                  changed |-> <<new>>] >>
                        /\ local[t].result =
                              [kind |-> "return", msg |-> Empty, flag |-> TRUE]

\* A recovery over two stored records ended after a successful refresh.
C8_Witness ==
    \E t \in Tasks :
        /\ op[t] = "recover" /\ pc[t] = "done"
        /\ Len(local[t].sessions) = 2
        /\ local[t].outcomes = <<"ok">>

\* C9: a removeSession whose id is the id of no stored record ends without
\* a store write, a logout request or an event, and the store is what it was
\* at the call; so does the same call made again.
C9_RemoveUnknownIsNoOp ==
    \A t \in Tasks :
        (op[t] = "remove" /\ local[t].loaded
           /\ ~HasId(local[t].sessions, local[t].arg)) =>
            /\ pc[t] = "done"
            /\ local[t].result.kind = "return"
            /\ local[t].writes = <<>>
            /\ local[t].reqs = <<>>
            /\ local[t].fired = <<>>
            /\ secret = local[t].before
            /\ Stored = local[t].sessions

\* The second of two removals of an id unknown to a store of two records.
C9_Witness ==
    \E t \in Tasks :
        /\ op[t] = "remove" /\ pc[t] = "done"
        /\ local[t].again
        /\ Len(local[t].sessions) = 2
        /\ ~HasId(local[t].sessions, local[t].arg)

\* The list without its first record of that id.
C10_Without(sessions, id) ==
    LET k == CHOOSE i \in DOMAIN sessions :
                 /\ sessions[i].id = id
                 /\ \A j \in DOMAIN sessions : sessions[j].id = id => i <= j
    IN  [i \in 1..(Len(sessions) - 1) |->
            IF i < k THEN sessions[i] ELSE sessions[i + 1]]

C10_Record(sessions, id) ==
    sessions[CHOOSE i \in DOMAIN sessions :
                 /\ sessions[i].id = id
                 /\ \A j \in DOMAIN sessions : sessions[j].id = id => i <= j]

\* C10: a removeSession of a stored id has stored the list without the
\* record before its logout request exists; it sends no logout request for a
\* record with an empty refreshToken and one otherwise; and it ends, however
\* the logout request ended, by returning with exactly one event fired, the
\* removal of that record, and the record still out of the store.
C10_RemoveKnownId ==
    \A t \in Tasks :
        (op[t] = "remove" /\ local[t].loaded
           /\ HasId(local[t].sessions, local[t].arg)) =>
            LET rec == C10_Record(local[t].sessions, local[t].arg)
                rest == C10_Without(local[t].sessions, local[t].arg)
            IN  /\ local[t].writes = <<rest>>
                /\ Stored = rest
                /\ ~HasId(Stored, local[t].arg)
                /\ pc[t] \in {"stored", "logout", "done"}
                /\ local[t].reqs =
                      IF rec.refreshToken = Empty \/ pc[t] = "stored" THEN <<>>
                      ELSE << [kind |-> "logout", id |-> rec.id,
                               token |-> rec.refreshToken] >>
                /\ pc[t] # "done" => local[t].fired = <<>>
                /\ pc[t] = "done" =>
                      /\ local[t].result.kind = "return"
                      /\ local[t].fired =
                            << [added |-> <<>>, removed |-> <<rec>>,
                                changed |-> <<>>] >>

\* A removal ended after its logout request failed in transport.
C10_Witness ==
    \E t \in Tasks :
        /\ op[t] = "remove" /\ pc[t] = "done"
        /\ local[t].resp.kind = "neterr"
        /\ Len(local[t].fired) = 1

\* C11: a record a sweep refreshed successfully is, in the list the sweep
\* stores, the record it loaded with the server's new access token, the
\* server's new refresh token when one came back and else the refresh token
\* it had (the empty string too), and an expiry of the clock at the refresh
\* plus the ten minutes; id, account, scopes and loginNeeded are as loaded.
C11_SweepStoresRefreshed ==
    \A t \in Tasks : op[t] = "sweep" =>
        \A k \in DOMAIN local[t].granted :
            LET g == local[t].granted[k]
                old == local[t].sessions[g.idx]
                new == local[t].out[g.idx]
            IN  /\ old.expiresAt <= local[t].examAt[g.idx]
                /\ new.accessToken = g.resp.accessToken
                /\ new.refreshToken = IF g.resp.refreshToken = Abandoned
                                      THEN old.refreshToken
                                      ELSE g.resp.refreshToken
                /\ new.expiresAt = g.at + ACCESS_TOKEN_TTL_MINUTES * 60 * 1000
                /\ new.id = old.id /\ new.account = old.account
                /\ new.scopes = old.scopes /\ new.loginNeeded = old.loginNeeded
                /\ pc[t] = "stored" =>
                      /\ local[t].writes = << local[t].out >>
                      /\ Stored[g.idx] = new

\* A record logged in with access token T1 and no refresh token has expired,
\* the sweep's refresh request for it was answered with T2 and no refresh
\* token, and the stored record carries T2 and the empty refresh token.
C11_Witness ==
    \E t \in Tasks :
        /\ op[t] = "sweep" /\ pc[t] = "stored"
        /\ Len(local[t].granted) = 1
        /\ local[t].granted[1].resp.refreshToken = Abandoned
        /\ local[t].sessions[local[t].granted[1].idx].accessToken = "T1"
        /\ local[t].sessions[local[t].granted[1].idx].refreshToken = Empty
        /\ Stored[local[t].granted[1].idx].accessToken = "T2"
        /\ Stored[local[t].granted[1].idx].refreshToken = Empty

\* The record whose refresh request task t has in flight, when it has one.
InFlight(t, id) ==
    /\ pc[t] = "refresh"
    /\ \/ op[t] = "sweep" /\ local[t].sessions[local[t].idx].id = id
       \/ op[t] = "recover" /\ local[t].session.id = id

\* C12: whatever the interleaving of refreshSessions and handleTokenExpired,
\* no two refresh requests for the same session record are in flight at the
\* same time.
C12_NoDuplicateRefresh ==
    \A id \in Ids : \A t, u \in Tasks : (InFlight(t, id) /\ InFlight(u, id)) => t = u

\* C13: from an empty store, however createSession, removeSession,
\* refreshSessions and handleTokenExpired interleave, the stored list never
\* holds two records with the same id and never more than one record.
C13_AtMostOneRecord ==
    /\ Len(Stored) <= 1
    /\ \A i, j \in DOMAIN Stored : Stored[i].id = Stored[j].id => i = j

\* Two logins of different users have both stored their session, and a
\* removeSession and a sweep at other moments would find one record.
C13_Witness ==
    \E t, u \in Tasks :
        /\ op[t] = "create" /\ pc[t] = "stored"
        /\ op[u] = "create" /\ pc[u] = "stored"
        /\ local[t].username # local[u].username
        /\ Len(Stored) = 1

\* C14: when createSession has used its three attempts and every login
\* failed, by a rejection or by a network failure, the error it raises is the
\* error of the exhausted attempts, "Maximum login attempts exceeded", and
\* not the error of the last attempt.
C14_MaxAttemptsError ==
    \A t \in Tasks :
        (op[t] = "create" /\ local[t].outcomes = <<"fail", "fail", "fail">>) =>
            local[t].result = [kind |-> "throw",
                               msg |-> "Maximum login attempts exceeded",
                               flag |-> FALSE]

\* C15: a refresh of a stored record whose refresh token is empty fails
\* fast: neither a sweep nor handleTokenExpired sends a refresh request for
\* such a record, at the first sweep or at any later one.
C15_EmptyTokenNeverSent ==
    \A t \in Tasks : op[t] \in {"sweep", "recover"} =>
        \A k \in DOMAIN local[t].reqs :
            local[t].reqs[k].kind = "refresh" => local[t].reqs[k].token # Empty

\* C16: a refreshSessions call never raises to its caller, whatever fails:
\* a stored string that cannot be parsed (to be read as the empty list) or a
\* refresh request; every call ends by returning.
C16_SweepNeverRaises ==
    \A t \in Tasks : (op[t] = "sweep" /\ pc[t] = "done") =>
        local[t].result.kind = "return"

\* The sweep that has set the flag and not yet cleared it.
Sweeping(t) ==
    op[t] = "sweep" /\ pc[t] \in {"load", "refresh", "stored"}

C17_DisposeStopsTimer ==
    /\ [][/\ ~disposable =>
                /\ \A t \in Tasks : ~Sweeping(t) =>
                      (pc'[t] = pc[t] /\ local'[t] = local[t] /\ op'[t] = op[t])
                /\ ~disposable' /\ ~refreshInterval'
          /\ (disposable /\ ~disposable') =>
                UNCHANGED <<secret, isRefreshing, op, pc, local, timers>>]_vars
    /\ [](\A t \in Tasks : (~disposable /\ Sweeping(t)) =>
              ENABLED (SweepLoaded(t) \/ SweepRefreshDone(t) \/ SweepFinish(t)))

\* dispose has run while a sweep awaited the answer to a refresh request.
C17_Witness ==
    \E t \in Tasks :
        /\ ~disposable
        /\ op[t] = "sweep" /\ pc[t] = "refresh"
        /\ Len(local[t].reqs) = 1

\* C19: the timer that cancels a network call, be it the login, a refresh or
\* the logout, is cleared whether the call succeeds or fails: once the method
\* that armed it has ended, it is no longer pending.
C19_NoTimerLeftArmed ==
    \A t \in Tasks : pc[t] \in {"idle", "done"} => t \notin timers

\* C20: once removeSession has stored the list without the record of an id,
\* the store holds no record of that id until a createSession logs that user
\* in again, also when a sweep or a handleTokenExpired that loaded the list
\* before the removal stores after it.
C20_RemovedStaysRemoved ==
    \A id \in removedIds : ~HasId(Stored, id)

\* C21: in the stubs variant, removeSession called with an id that no
\* stored record has, the store holding at least one record, changes nothing:
\* the list stored afterwards is the list as it was loaded, and no event is
\* fired.
C21_StubRemoveUnknownIsNoOp ==
    \A t \in Tasks :
        (/\ op[t] = "stubRemove" /\ pc[t] \in {"stored", "done"}
         /\ local[t].idx = -1
         /\ Len(local[t].sessions) > 0) =>
            /\ Stored = local[t].sessions
            /\ local[t].fired = <<>>

====
